---- MODULE Spec2Model ----
(***************************************************************************)
(* Model of LLM-duet: the conversation loop have_conversation              *)
(* (conversation.py) driven against a scripted client, and the two client  *)
(* wrappers OllamaClient.generate (ollama_client.py) and                   *)
(* OpenAIClient.generate (openai_client.py).                               *)
(*                                                                         *)
(* Python strings are TLA+ strings; f-strings and "\n".join are string     *)
(* concatenation.  An optional value (str | None) is a sequence of length  *)
(* 0 (None) or 1.                                                          *)
(***************************************************************************)
EXTENDS Integers, Sequences, FiniteSets, TLC

VARIABLES
    \* have_conversation: arguments
    model_a, model_b, prompt, turns, system_a, system_b,
    \* have_conversation: locals
    pc, history, history_a, history_b, current_model, i, outcome,
    \* the client handed to have_conversation: its calls, each with its result
    calls,
    \* OllamaClient: module state, transport log, call log
    requests, posts, ollama_log,
    \* OpenAIClient: provider log, call log
    completions, openai_log

conv_vars == <<model_a, model_b, prompt, turns, system_a, system_b,
               pc, history, history_a, history_b, current_model, i, outcome,
               calls>>
ollama_vars == <<requests, posts, ollama_log>>
openai_vars == <<completions, openai_log>>
vars == <<conv_vars, ollama_vars, openai_vars>>

----------------------------------------------------------------------------
\* Bounds and input sets

MaxTurns == 3
MaxCalls == 2

Models    == {"A", "B"}
Prompts   == {"hi"}
Systems   == {<<>>, <<"">>, <<"SA">>, <<"SB">>}
Responses == {"", "R1", "R2"}
Errors    == {"ConnectionError", "HTTPError"}

None == <<>>

----------------------------------------------------------------------------
\* Pure helpers of have_conversation

\* Python truthiness of a str | None value: `if system_a:`
Truthy(opt) == opt # None /\ opt[1] # ""

\* "\n".join(lines)
RECURSIVE Join(_)
Join(lines) ==
    IF Len(lines) = 0 THEN ""
    ELSE IF Len(lines) = 1 THEN lines[1]
    ELSE lines[1] \o "\n" \o Join(Tail(lines))

\* f"user: {prompt}"
UserLine(p) == "user: " \o p

\* f"{current_model}: {response}"
Line(m, r) == m \o ": " \o r

\* the tuple appended to the transcript
Entry_line(m, r) == <<m, Line(m, r)>>
Entry(m, r) == <<m, r>>

\* len(range(turns))
RangeLen_short(n) == IF n < 1 THEN 0 ELSE n - 1
RangeLen(n) == IF n < 0 THEN 0 ELSE n

\* history_a / history_b as first built
InitialHistory(sys, p) ==
    (IF Truthy(sys) THEN <<sys[1]>> ELSE <<>>) \o <<UserLine(p)>>

\* current_history = history_a if current_model == model_a else history_b
CurrentHistory == IF current_model = model_a THEN history_a ELSE history_b

\* current_model = model_b if current_model == model_a else model_a
NextModel_stuck(cur) == model_a
NextModel(cur) == IF cur = model_a THEN model_b ELSE model_a

\* stream=False
StreamArg == FALSE

\* client.generate(current_model, "\n".join(current_history), stream=False),
\* recorded with what the client did: return a text or raise an error
GenerateCall(res) ==
    [model |-> current_model, prompt |-> Join(CurrentHistory),
     stream |-> StreamArg, result |-> res]

----------------------------------------------------------------------------
\* have_conversation

ConvInit ==
    /\ model_a \in Models
    /\ model_b \in Models
    /\ prompt \in Prompts
    /\ turns \in -1..MaxTurns
    /\ system_a \in Systems \ {<<"SB">>}
    /\ system_b \in Systems \ {<<"SA">>}
    /\ pc = "start"
    /\ history = <<>>
    /\ history_a = <<>>
    /\ history_b = <<>>
    /\ current_model = ""
    /\ i = 0
    /\ outcome = [kind |-> "running"]
    /\ calls = <<>>

\* lines 56-66
Setup ==
    /\ pc = "start"
    /\ history' = <<>>
    /\ history_a' = InitialHistory(system_a, prompt)
    /\ history_b' = InitialHistory(system_b, prompt)
    /\ current_model' = model_a
    /\ i' = 0
    /\ pc' = "loop"
    /\ UNCHANGED <<model_a, model_b, prompt, turns, system_a, system_b,
                   outcome, calls>>

\* one loop iteration in which client.generate returns (lines 68-76)
TurnReturn_double ==
    /\ pc = "loop"
    /\ i < RangeLen(turns)
    /\ \E response \in Responses :
          /\ calls' = Append(calls, GenerateCall([kind |-> "return", value |-> response]))
          /\ history' = Append(Append(history, Entry(current_model, response)),
                               Entry(current_model, response))
          /\ IF current_model = model_a
                THEN /\ history_b' = Append(history_b, Line(current_model, response))
                     /\ history_a' = history_a
                ELSE /\ history_a' = Append(history_a, Line(current_model, response))
                     /\ history_b' = history_b
    /\ current_model' = NextModel(current_model)
    /\ i' = i + 1
    /\ UNCHANGED <<model_a, model_b, prompt, turns, system_a, system_b, pc, outcome>>
TurnReturn ==
    /\ pc = "loop"
    /\ i < RangeLen(turns)
    /\ \E response \in Responses :
          /\ calls' = Append(calls, GenerateCall([kind |-> "return", value |-> response]))
          /\ history' = Append(history, Entry(current_model, response))
          /\ IF current_model = model_a
                THEN /\ history_b' = Append(history_b, Line(current_model, response))
                     /\ history_a' = history_a
                ELSE /\ history_a' = Append(history_a, Line(current_model, response))
                     /\ history_b' = history_b
    /\ current_model' = NextModel(current_model)
    /\ i' = i + 1
    /\ UNCHANGED <<model_a, model_b, prompt, turns, system_a, system_b, pc, outcome>>

\* one loop iteration in which client.generate raises: the exception leaves
\* have_conversation (line 69, no try/except around it)
TurnRaise_swallow ==
    /\ pc = "loop"
    /\ i < RangeLen(turns)
    /\ \E e \in Errors :
          calls' = Append(calls, GenerateCall([kind |-> "raise", error |-> e]))
    /\ i' = i + 1
    /\ UNCHANGED <<model_a, model_b, prompt, turns, system_a, system_b, pc, outcome,
                   history, history_a, history_b, current_model>>
TurnRaise ==
    /\ pc = "loop"
    /\ i < RangeLen(turns)
    /\ \E e \in Errors :
          /\ calls' = Append(calls, GenerateCall([kind |-> "raise", error |-> e]))
          /\ outcome' = [kind |-> "raise", error |-> e]
    /\ pc' = "raised"
    /\ UNCHANGED <<model_a, model_b, prompt, turns, system_a, system_b,
                   history, history_a, history_b, current_model, i>>

\* return history
Return ==
    /\ pc = "loop"
    /\ i >= RangeLen(turns)
    /\ outcome' = [kind |-> "return", value |-> history]
    /\ pc' = "returned"
    /\ UNCHANGED <<model_a, model_b, prompt, turns, system_a, system_b,
                   history, history_a, history_b, current_model, i, calls>>

ClientsIdle ==
    /\ requests = TRUE
    /\ posts = <<>>
    /\ ollama_log = <<>>
    /\ completions = <<>>
    /\ openai_log = <<>>

Init == ConvInit /\ ClientsIdle

Next ==
    \/ Setup /\ UNCHANGED <<ollama_vars, openai_vars>>
    \/ TurnReturn /\ UNCHANGED <<ollama_vars, openai_vars>>
    \/ TurnRaise /\ UNCHANGED <<ollama_vars, openai_vars>>
    \/ Return /\ UNCHANGED <<ollama_vars, openai_vars>>

Spec == Init /\ [][Next]_vars

----------------------------------------------------------------------------
\* OllamaClient.generate

\* kwargs.get("timeout", 60)
DefaultTimeout == 60

\* self.base_url as __init__ leaves it with no argument and no OLLAMA_HOST
BaseUrl == "http://localhost:11434"

ClientModels == {"llama2"}

\* prompts handed to OpenAIClient.generate directly: one line, several lines
ClientPrompts == {"hi", "user: hi\nA: R1"}

\* kwargs["options"]: absent, an empty dict, a dict of generation parameters
OptionArgs == {<<>>, << <<>> >>, <<[temperature |-> "0"]>>}

\* kwargs["timeout"]: absent, an int, a numeric string, a string int() rejects
TimeoutArgs == {<<>>, <<[int |-> 5]>>, <<[str |-> "5"]>>, <<[str |-> "soon"]>>}

\* what the transport does with one POST
Replies ==
    {[kind |-> "network_error"],
     [kind |-> "status_error"],
     [kind |-> "not_json"],
     [kind |-> "json_array"],
     [kind |-> "json_object", data |-> [response |-> "ok", done |-> "true"]],
     [kind |-> "json_object", data |-> [response |-> "", done |-> "true"]],
     [kind |-> "json_object", data |-> [done |-> "true"]]}

\* `if options:` for a dict | None
TruthyDict(opt) == opt # None /\ DOMAIN opt[1] # {}

\* payload, with payload["options"] = options when options is truthy
Payload(model, p, stream, options) ==
    IF TruthyDict(options)
    THEN [model |-> model, prompt |-> p, stream |-> stream, options |-> options[1]]
    ELSE [model |-> model, prompt |-> p, stream |-> stream]

\* int(kwargs.get("timeout", 60)): None stands for the ValueError int() raises
IntTimeout(arg) ==
    IF arg = None THEN <<DefaultTimeout>>
    ELSE IF "int" \in DOMAIN arg[1] THEN <<arg[1].int>>
    ELSE IF arg[1].str = "5" THEN <<5>>
    ELSE None

\* data.get("response", "")
DataGet(data) ==
    IF "response" \in DOMAIN data THEN data.response ELSE ""

\* lines 69-72 once the transport has answered the POST
AfterPost(reply) ==
    CASE reply.kind = "network_error" -> [kind |-> "raise", error |-> "ConnectionError"]
      [] reply.kind = "status_error"  -> [kind |-> "raise", error |-> "HTTPError"]
      [] reply.kind = "not_json"      -> [kind |-> "raise", error |-> "JSONDecodeError"]
      [] reply.kind = "json_array"    -> [kind |-> "raise", error |-> "AttributeError"]
      [] reply.kind = "json_object"   -> [kind |-> "return", value |-> DataGet(reply.data)]

PostRecord(model, p, stream, options, t, reply) ==
    [url |-> BaseUrl \o "/api/generate",
     json |-> Payload(model, p, stream, options),
     timeout |-> t,
     reply |-> reply]

OllamaInit ==
    /\ requests \in BOOLEAN
    /\ posts = <<>>
    /\ ollama_log = <<>>

\* generate retrying a failed request once
OllamaGenerate_retry ==
    /\ Len(ollama_log) < MaxCalls
    /\ \E model \in ClientModels, p \in Prompts, stream \in BOOLEAN,
          options \in OptionArgs, timeout \in TimeoutArgs, reply \in Replies :
          LET t == IntTimeout(timeout)
              post == PostRecord(model, p, stream, options, t[1], reply)
          IN  IF t = None
              THEN /\ posts' = posts
                   /\ ollama_log' = Append(ollama_log,
                          [timeout |-> timeout,
                           result |-> [kind |-> "raise", error |-> "ValueError"]])
              ELSE IF ~requests
              THEN /\ posts' = posts
                   /\ ollama_log' = Append(ollama_log,
                          [timeout |-> timeout,
                           result |-> [kind |-> "raise", error |-> "ImportError"]])
              ELSE /\ posts' = IF AfterPost(reply).kind = "raise"
                                  THEN Append(Append(posts, post), post)
                                  ELSE Append(posts, post)
                   /\ ollama_log' = Append(ollama_log,
                          [timeout |-> timeout, result |-> AfterPost(reply)])
    /\ UNCHANGED requests

\* one call of generate, lines 55-72
OllamaGenerate ==
    /\ Len(ollama_log) < MaxCalls
    /\ \E model \in ClientModels, p \in Prompts, stream \in BOOLEAN,
          options \in OptionArgs, timeout \in TimeoutArgs, reply \in Replies :
          LET t == IntTimeout(timeout)
          IN  IF t = None
              THEN /\ posts' = posts
                   /\ ollama_log' = Append(ollama_log,
                          [timeout |-> timeout,
                           result |-> [kind |-> "raise", error |-> "ValueError"]])
              ELSE IF ~requests
              THEN /\ posts' = posts
                   /\ ollama_log' = Append(ollama_log,
                          [timeout |-> timeout,
                           result |-> [kind |-> "raise", error |-> "ImportError"]])
              ELSE /\ posts' = Append(posts,
                          PostRecord(model, p, stream, options, t[1], reply))
                   /\ ollama_log' = Append(ollama_log,
                          [timeout |-> timeout, result |-> AfterPost(reply)])
    /\ UNCHANGED requests

\* no have_conversation call in progress
ConvIdle ==
    /\ model_a = "llama2"
    /\ model_b = "llama2"
    /\ prompt = ""
    /\ turns = 0
    /\ system_a = None
    /\ system_b = None
    /\ pc = "idle"
    /\ history = <<>>
    /\ history_a = <<>>
    /\ history_b = <<>>
    /\ current_model = ""
    /\ i = 0
    /\ outcome = [kind |-> "running"]
    /\ calls = <<>>

InitOllama ==
    /\ ConvIdle
    /\ OllamaInit
    /\ completions = <<>>
    /\ openai_log = <<>>

NextOllama == OllamaGenerate /\ UNCHANGED <<conv_vars, openai_vars>>

SpecOllama == InitOllama /\ [][NextOllama]_vars

----------------------------------------------------------------------------
\* OpenAIClient.generate

\* what the provider does with one chat-completion request: an API error, or
\* a completion whose first choice has a null, empty or non-empty content
Completions ==
    {[kind |-> "api_error"],
     [kind |-> "completion", content |-> <<>>],
     [kind |-> "completion", content |-> <<"">>],
     [kind |-> "completion", content |-> <<"ok">>]}

\* response.choices[0].message.content or ""
ContentOrEmpty(content) == IF Truthy(content) THEN content[1] ELSE ""

\* `if stream:`
StreamRefused_never(stream) == FALSE
StreamRefused(stream) == stream

OpenAIInit ==
    /\ completions = <<>>
    /\ openai_log = <<>>

\* one call of generate, lines 29-38
OpenAIGenerate ==
    /\ Len(openai_log) < MaxCalls
    /\ \E model \in Models, p \in ClientPrompts, stream \in BOOLEAN,
          reply \in Completions :
          IF StreamRefused(stream)
          THEN /\ completions' = completions
               /\ openai_log' = Append(openai_log,
                      [model |-> model, prompt |-> p, stream |-> stream,
                       result |-> [kind |-> "raise", error |-> "NotImplementedError"]])
          ELSE /\ completions' = Append(completions,
                      [model |-> model,
                       messages |-> <<[role |-> "user", content |-> p]>>])
               /\ openai_log' = Append(openai_log,
                      [model |-> model, prompt |-> p, stream |-> stream,
                       result |->
                          IF reply.kind = "api_error"
                          THEN [kind |-> "raise", error |-> "APIError"]
                          ELSE [kind |-> "return",
                                value |-> ContentOrEmpty(reply.content)]])

InitOpenAI ==
    /\ ConvIdle
    /\ OpenAIInit
    /\ requests = TRUE
    /\ posts = <<>>
    /\ ollama_log = <<>>

NextOpenAI == OpenAIGenerate /\ UNCHANGED <<conv_vars, ollama_vars>>

SpecOpenAI == InitOpenAI /\ [][NextOpenAI]_vars

----------------------------------------------------------------------------
\* Vocabulary of the properties of have_conversation

\* the speaker of turn k (1-indexed): Model A opens, then strict alternation
SpeakerOf(k) == IF k % 2 = 1 THEN model_a ELSE model_b

\* the system prompt and the context of the speaker of turn k
SystemOf(k) == IF k % 2 = 1 THEN system_a ELSE system_b
ContextOf(k) == IF k % 2 = 1 THEN history_a ELSE history_b

\* the texts the client returned, in call order
RECURSIVE ReturnedUpTo(_)
ReturnedUpTo(n) ==
    IF n = 0 THEN <<>>
    ELSE IF calls[n].result.kind = "return"
         THEN Append(ReturnedUpTo(n - 1), calls[n].result.value)
         ELSE ReturnedUpTo(n - 1)
Returned == ReturnedUpTo(Len(calls))

\* the context lines built from the transcript entries 1..n whose index is in S
RECURSIVE LinesOfTurns(_, _)
LinesOfTurns(S, n) ==
    IF n = 0 THEN <<>>
    ELSE IF n \in S
         THEN Append(LinesOfTurns(S, n - 1), Line(history[n][1], history[n][2]))
         ELSE LinesOfTurns(S, n - 1)

OddTurns  == {k \in 1..Len(history) : k % 2 = 1}
EvenTurns == {k \in 1..Len(history) : k % 2 = 0}

IsPrefix(s, t) == Len(s) <= Len(t) /\ SubSeq(t, 1, Len(s)) = s

----------------------------------------------------------------------------
\* C1: a have_conversation call in which no client call fails returns a
\* transcript with exactly `turns` entries, for every turns >= 0, whatever the
\* client returns (empty and repeated texts included).
C1_TranscriptLength ==
    (pc = "returned" /\ turns >= 0) =>
        /\ outcome.kind = "return"
        /\ Len(outcome.value) = turns

C1_Witness ==
    /\ pc = "returned"
    /\ turns = MaxTurns
    /\ Len(outcome.value) = MaxTurns
    /\ outcome.value[1][2] = ""
    /\ outcome.value[2][2] = outcome.value[3][2]

\* C2: entry k of the transcript and the k-th client call both name model_a
\* when k is odd and model_b when k is even (1-indexed): strict alternation
\* starting with model_a.
C2_Alternation ==
    /\ \A k \in 1..Len(history) : history[k][1] = SpeakerOf(k)
    /\ \A k \in 1..Len(calls) : calls[k].model = SpeakerOf(k)
    /\ pc = "returned" =>
          \A k \in 1..Len(outcome.value) : outcome.value[k][1] = SpeakerOf(k)

C2_Witness ==
    /\ pc = "returned"
    /\ model_a # model_b
    /\ Len(outcome.value) = MaxTurns
    /\ Len(calls) = MaxTurns

\* C3: the text of transcript entry k is the value the k-th client call
\* returned, unmodified and in call order; the returned transcript is
\* [(s_1, r_1), ..., (s_n, r_n)]; an entry once appended is never changed,
\* reordered or removed.
C3_TranscriptIsReturnedTexts ==
    /\ [](/\ Len(history) = Len(Returned)
          /\ \A k \in 1..Len(history) : history[k] = <<SpeakerOf(k), Returned[k]>>
          /\ pc = "returned" =>
                /\ Len(outcome.value) = Len(Returned)
                /\ \A k \in 1..Len(Returned) :
                      outcome.value[k] = <<SpeakerOf(k), Returned[k]>>)
    /\ [][IsPrefix(history, history')]_vars

C3_Witness ==
    /\ pc = "returned"
    /\ Len(outcome.value) = MaxTurns
    /\ outcome.value[1][2] = "R1"
    /\ outcome.value[2][2] = "R2"
    /\ outcome.value[3][2] = ""

\* C4: for every turn k >= 2 the prompt passed to the client is the
\* newline-join of the context the speaker of turn k had accumulated, and the
\* last line of that context is "<speaker of turn k-1>: <response of turn k-1>".
C4_PromptEndsWithPreviousTurn ==
    \A k \in 2..Len(calls) :
        \E n \in 1..Len(ContextOf(k)) :
            /\ calls[k].prompt = Join(SubSeq(ContextOf(k), 1, n))
            /\ ContextOf(k)[n] = Line(SpeakerOf(k - 1), Returned[k - 1])

\* C5: each speaker's context is its optional system line, the seed line
\* "user: <prompt>", and then the lines built from the other speaker's
\* responses; a line built from a speaker's response is never in that
\* speaker's own context.
C5_OnlyOtherSpeakersLines ==
    pc # "start" =>
        /\ history_a = InitialHistory(system_a, prompt) \o LinesOfTurns(EvenTurns, Len(history))
        /\ history_b = InitialHistory(system_b, prompt) \o LinesOfTurns(OddTurns, Len(history))

\* C6: when the k-th client call raises, have_conversation raises that same
\* error at once: the failed call is the last call (no retry, no further
\* turn) and no transcript is returned.
C6_ErrorPropagates ==
    \A k \in 1..Len(calls) :
        calls[k].result.kind = "raise" =>
            /\ k = Len(calls)
            /\ pc = "raised"
            /\ outcome = [kind |-> "raise", error |-> calls[k].result.error]

C6_Witness ==
    /\ pc = "raised"
    /\ turns = MaxTurns
    /\ Len(calls) = 2
    /\ Len(history) = 1
    /\ outcome = [kind |-> "raise", error |-> "HTTPError"]

\* C7: one client call per loop iteration, always with stream = false, and
\* one transcript entry per call that returned; with turns = 0 the client is
\* never called and the returned transcript is empty.
C7_OneCallOneEntryPerIteration ==
    /\ \A k \in 1..Len(calls) : calls[k].stream = FALSE
    /\ Len(calls) = i + (IF pc = "raised" THEN 1 ELSE 0)
    /\ Len(history) = Len(Returned)
    /\ Len(history) = i
    /\ (pc = "returned" /\ turns = 0) => (calls = <<>> /\ outcome.value = <<>>)

C7_Witness ==
    /\ pc = "loop"
    /\ i = 2
    /\ Len(calls) = 2
    /\ Len(history) = 2

\* C10: a given system prompt is line 0 of its speaker's context and the seed
\* line is line 1 (line 0 when no system prompt is given), for the rest of the
\* call; every prompt sent for a speaker starts with these lines in this order.
\* (A system prompt counts as given when `if system_a:` takes it: not None, not
\* empty.)
C10_SystemLineFirst ==
    pc # "start" =>
        /\ IsPrefix(InitialHistory(system_a, prompt), history_a)
        /\ IsPrefix(InitialHistory(system_b, prompt), history_b)
        /\ \A k \in 1..Len(calls) :
              \E S \in SUBSET (1..Len(history)) :
                  calls[k].prompt =
                      Join(InitialHistory(SystemOf(k), prompt) \o LinesOfTurns(S, Len(history)))

\* C8: OpenAIClient.generate called with stream = true raises
\* NotImplementedError and issues no chat-completion request, for every model
\* identifier and prompt.
C8_StreamRefusedBeforeRequest ==
    [][\A n \in 1..Len(openai_log') :
          (n > Len(openai_log) /\ openai_log'[n].stream) =>
              /\ openai_log'[n].result = [kind |-> "raise", error |-> "NotImplementedError"]
              /\ completions' = completions]_vars

C8_Witness ==
    /\ Len(openai_log) = 2
    /\ ~openai_log[1].stream
    /\ openai_log[2].stream
    /\ openai_log[2].result.kind = "raise"
    /\ Len(completions) = 1

\* what the caller of OllamaClient.generate gets for a transport reply
ReplyHonoured(reply, result) ==
    /\ (reply.kind = "json_object" /\ "response" \in DOMAIN reply.data) =>
          result = [kind |-> "return", value |-> reply.data.response]
    /\ (reply.kind = "json_object" /\ "response" \notin DOMAIN reply.data) =>
          result = [kind |-> "return", value |-> ""]
    /\ reply.kind \in {"network_error", "status_error"} => result.kind = "raise"

\* C9 as stated: every call of OllamaClient.generate issues exactly one POST;
\* it returns the `response` field of the JSON body, "" when the field is
\* absent, and raises when the request fails or the status is non-success.
C9_ExactlyOnePostPerCall ==
    [][Len(ollama_log') = Len(ollama_log) + 1 =>
          /\ Len(posts') = Len(posts) + 1
          /\ IsPrefix(posts, posts')
          /\ ReplyHonoured(posts'[Len(posts')].reply,
                              ollama_log'[Len(ollama_log')].result)]_vars

\* C9 amended: a call made with the requests library importable and a
\* timeout int() accepts issues exactly one POST, and its result follows the
\* reply as stated (any other reply to that single POST raises); a call made
\* without the library or with a timeout int() rejects raises and issues no
\* POST.
C9_OnePostOnceRequestReached ==
    [][Len(ollama_log') = Len(ollama_log) + 1 =>
          LET call == ollama_log'[Len(ollama_log')]
          IN  IF requests /\ IntTimeout(call.timeout) # None
              THEN /\ Len(posts') = Len(posts) + 1
                   /\ IsPrefix(posts, posts')
                   /\ ReplyHonoured(posts'[Len(posts')].reply, call.result)
                   /\ posts'[Len(posts')].reply.kind \in {"not_json", "json_array"} =>
                         call.result.kind = "raise"
              ELSE /\ posts' = posts
                   /\ call.result.kind = "raise"]_vars

C9_Witness ==
    /\ Len(ollama_log) = 2
    /\ Len(posts) = 2
    /\ posts[1].reply.kind = "status_error"
    /\ ollama_log[1].result.kind = "raise"
    /\ posts[2].reply = [kind |-> "json_object", data |-> [done |-> "true"]]
    /\ ollama_log[2].result = [kind |-> "return", value |-> ""]

\* with distinct model identifiers C4, C5 and C10 hold as stated
DistinctModels == model_a # model_b
C4_Distinct == DistinctModels => C4_PromptEndsWithPreviousTurn
C5_Distinct == DistinctModels => C5_OnlyOtherSpeakersLines
C10_Distinct == DistinctModels => C10_SystemLineFirst

====
